---- MODULE Spec2Model ----
(***************************************************************************)
(* LearnFinance: the Leitner flashcard scheduler (js/flashcards.js, held   *)
(* in src/js/utils.js) and the progress store with its streak tracker      *)
(* (js/progress.js, held in src/js/exam-outline.js, and the chapter page    *)
(* of js/learn.js, held in src/unnamed/part_000).                          *)
(*                                                                         *)
(* Calendar dates are day numbers (the ISO string "YYYY-MM-DD" of day d;   *)
(* string order of such strings is the order of the day numbers), and a    *)
(* timestamp (new Date().toISOString()) is the reading of a clock that     *)
(* never runs backwards.  Time zones are fixed offsets from UTC: a clock   *)
(* change (daylight saving) inside an interval is outside the model.       *)
(***************************************************************************)
EXTENDS Integers, Sequences, FiniteSets, TLC

VARIABLES
    today,          \* the UTC calendar day of the clock
    now,            \* the clock reading, as a timestamp
    tzEast,         \* the browser's time zone is ahead of UTC
    \* ---- flashcards module state (utils.js 135-140) ----
    leitnerState,   \* in-memory map card id -> {box, nextReview}
    cardBlob,       \* localStorage['lf_flashcards']
    studyQueue,     \* the cards in study order
    currentIndex,   \* 0-based index of the displayed card
    sessionStats,   \* {mastered, reviewing, total}
    view,           \* what #flashcard-root shows
    fetching,       \* startSession is awaiting the deck
    pendingAdvance, \* number of 350 ms advance timeouts not yet fired
    lastAnswer,     \* history: the last handleAnswer call of this page load
    \* ---- progress store ----
    progress,       \* localStorage['lf_progress'], as the code wrote it
    rawProgress,    \* the shape of localStorage['lf_progress'] when the code
                    \* did not write it
    thrown,         \* an operation of the store ended in an uncaught error
    \* ---- quiz page (quiz.js) ----
    quizPage        \* the module's state object and what #quiz-root shows

envVars   == <<today, now, tzEast>>
cardVars  == <<leitnerState, cardBlob, studyQueue, currentIndex,
               sessionStats, view, fetching, pendingAdvance, lastAnswer>>
sessionVars == <<leitnerState, studyQueue, currentIndex, sessionStats, view,
                 fetching, pendingAdvance, lastAnswer>>
progVars  == <<progress>>
pageVars  == <<rawProgress, thrown, quizPage>>
vars      == <<envVars, cardVars, progVars, pageVars>>

\* ---------------------------------------------------------------- bounds
MaxDay      == 2
MaxCardDay  == 1
MaxSortDay  == 2
MaxScores   == 2
MaxScoresOverDays == 1
MaxPending  == 2
MaxQuestions == 24

\* ------------------------------------------------------------- utilities
Min(a, b) == IF a < b THEN a ELSE b
Max(a, b) == IF a > b THEN a ELSE b
Range(s)  == {s[i] : i \in DOMAIN s}

\* todayISO(): new Date().toISOString().split('T')[0], the UTC date of now
todayISO == today

\* ============================ FLASHCARDS ================================
CardIds == {"c1", "c2", "c3"}
Deck    == <<"c1", "c2", "c3">>

BOX_INTERVALS == <<0, 2, 4, 7, 14>>

\* leitnerState[id] of a card that has no entry (undefined)
NoCard == [present |-> FALSE, box |-> 0, nextReview |-> 0]

EmptyLeitner == [c \in CardIds |-> NoCard]

\* addDays(dateStr, days): the date-only string parses as UTC midnight,
\* setDate moves the local calendar day and toISOString converts back, so
\* the zone offset cancels and the UTC date moves by `days`.
addDays(dateStr, days) == dateStr + days

\* loadLeitnerState(): the parsed blob, {} when the key is missing
loadLeitnerState(blob) == blob

\* getCardState(cardId): the map after the lazy insertion
getCardStateMap(st, cardId) ==
    IF st[cardId].present THEN st
    ELSE [st EXCEPT ![cardId] =
            [present |-> TRUE, box |-> 1, nextReview |-> todayISO]]

getCardState(st, cardId) == getCardStateMap(st, cardId)[cardId]

isDue(st, cardId) == getCardState(st, cardId).nextReview <= todayISO

boxToStars(box) == box

\* a comparator that orders the boxes strongest-first
CompareBoxDescending(st, a, b) ==
    LET sa   == getCardState(st, a)
        sb   == getCardState(st, b)
        aDue == sa.nextReview <= todayISO
        bDue == sb.nextReview <= todayISO
    IN  IF aDue /\ ~bDue THEN -1
        ELSE IF ~aDue /\ bDue THEN 1
        ELSE IF sa.box # sb.box THEN sb.box - sa.box
        ELSE sa.nextReview - sb.nextReview

\* the comparator of sortCards: negative, zero or positive
Compare(st, a, b) ==
    LET sa   == getCardState(st, a)
        sb   == getCardState(st, b)
        aDue == sa.nextReview <= todayISO
        bDue == sb.nextReview <= todayISO
    IN  IF aDue /\ ~bDue THEN -1
        ELSE IF ~aDue /\ bDue THEN 1
        ELSE IF sa.box # sb.box THEN sa.box - sb.box
        ELSE sa.nextReview - sb.nextReview

\* Array.prototype.sort is stable: x, later in the input than every element
\* of the sorted prefix s, goes before the first element that compares
\* greater than x.
RECURSIVE InsertStable(_, _, _)
InsertStable(st, s, x) ==
    IF s = <<>> THEN <<x>>
    ELSE IF Compare(st, s[1], x) > 0 THEN <<x>> \o s
    ELSE <<s[1]>> \o InsertStable(st, Tail(s), x)

RECURSIVE StableSort(_, _)
StableSort(st, cards) ==
    IF cards = <<>> THEN <<>>
    ELSE InsertStable(st, StableSort(st, SubSeq(cards, 1, Len(cards) - 1)),
                      cards[Len(cards)])

sortCards(st, cards) == StableSort(st, cards)

\* the comparator runs getCardState on every card as soon as there are two
RECURSIVE TouchAll(_, _)
TouchAll(st, cards) ==
    IF cards = <<>> THEN st
    ELSE TouchAll(getCardStateMap(st, Head(cards)), Tail(cards))

sortCardsMap(st, cards) == IF Len(cards) >= 2 THEN TouchAll(st, cards) ELSE st

\* =========================== PROGRESS STORE =============================
ExamIds    == {"sie", "s7"}
TopicIds   == {"t1", "t2"}
ChapterIds == {"ch1", "ch2"}

\* lastActivity: null
NoTime == -1

\* data.exams[examId] of an exam that has no entry (undefined)
NoExam ==
    [present |-> FALSE, topicsStudied |-> <<>>, chaptersCompleted |-> <<>>,
     quizScores |-> <<>>, flashcardsMastered |-> 0, lastActivity |-> NoTime]

getDefaultExamProgress ==
    [present |-> TRUE, topicsStudied |-> <<>>, chaptersCompleted |-> <<>>,
     quizScores |-> <<>>, flashcardsMastered |-> 0, lastActivity |-> NoTime]

getDefaultProgress ==
    [exams   |-> [e \in ExamIds |-> NoExam],
     streaks |-> [dates |-> <<>>, current |-> 0, longest |-> 0]]

\* the storage key is not set
NoBlob == [stored |-> FALSE, exams |-> getDefaultProgress.exams,
           streaks |-> getDefaultProgress.streaks]

\* state.examMeta: the catalogue entry of the exam, null when exams.json
\* has none
NoExamMeta == [known |-> FALSE, passingScore |-> 0]

\* the state object of quiz.js before initQuiz; phase is what #quiz-root
\* shows, timerInterval whether an interval is running
QuizIdle ==
    [phase |-> "idle", examId |-> "none", examMeta |-> NoExamMeta, count |-> 0,
     answers |-> <<>>, currentIndex |-> 0, timed |-> FALSE, secondsLeft |-> 0,
     timerInterval |-> FALSE, submitted |-> FALSE, reviewMode |-> FALSE]

PagesIdle == rawProgress = "ok" /\ thrown = FALSE /\ quizPage = QuizIdle

\* loadProgress(): the parsed blob, the default when the key is missing
loadProgress(blob) ==
    IF ~blob.stored THEN getDefaultProgress
    ELSE [exams |-> blob.exams, streaks |-> blob.streaks]

\* saveProgress(data)
saveProgress(data) ==
    [stored |-> TRUE, exams |-> data.exams, streaks |-> data.streaks]

\* ensureExam(data, examId): data with the entry created when missing
ensureExam(data, examId) ==
    IF data.exams[examId].present THEN data
    ELSE [data EXCEPT !.exams[examId] = getDefaultExamProgress]

todayString == today

\* Array.prototype.includes / filter / push
Includes(seq, x) == \E i \in DOMAIN seq : seq[i] = x
Filter(seq, x)   == SelectSeq(seq, LAMBDA y : y # x)

\* [...new Set(seq)]: the distinct values in order of first occurrence
RECURSIVE SetSpread(_)
SetSpread(seq) ==
    IF seq = <<>> THEN <<>>
    ELSE LET init == SetSpread(SubSeq(seq, 1, Len(seq) - 1))
             x    == seq[Len(seq)]
         IN  IF Includes(init, x) THEN init ELSE Append(init, x)

\* .sort().reverse() of distinct dates: strictly descending
RECURSIVE SortReverse(_)
SortReverse(set) ==
    IF set = {} THEN <<>>
    ELSE LET m == CHOOSE x \in set : \A y \in set : y <= x
         IN  <<m>> \o SortReverse(set \ {m})

\* new Date(d + 'T00:00:00') is local midnight of day d; toISOString gives
\* its UTC date, the day before in a zone ahead of UTC
isoDateOfLocalMidnight(d, east) == IF east THEN d - 1 ELSE d

\* the for loop of updateStreaks from index i on (1-based), with the local
\* day of checkDate and the count so far
RECURSIVE streakLoop(_, _, _, _, _, _)
streakLoop(sorted, i, checkDay, diffFromToday, east, current) ==
    IF i > Len(sorted) THEN current
    ELSE IF sorted[i] = isoDateOfLocalMidnight(checkDay - (i - 1), east)
         THEN streakLoop(sorted, i + 1, checkDay, diffFromToday, east, current + 1)
    ELSE IF i = 1 /\ diffFromToday = 1
         THEN IF sorted[i] = isoDateOfLocalMidnight(checkDay - 1, east)
              THEN streakLoop(sorted, i + 1, checkDay - 1, diffFromToday, east,
                              current + 1)
              ELSE current
    ELSE current

\* updateStreaks that stores the current streak as the longest
updateStreaksLongestIsCurrent(data, day, east) ==
    LET dates == data.streaks.dates
    IN  IF Len(dates) = 0 THEN [data EXCEPT !.streaks.current = 0]
        ELSE LET sorted        == SortReverse(Range(dates))
                 diffFromToday == day - sorted[1]
             IN  IF diffFromToday > 1
                 THEN [data EXCEPT !.streaks.dates = sorted, !.streaks.current = 0]
                 ELSE LET current == streakLoop(sorted, 1, day, diffFromToday, east, 0)
                      IN  [data EXCEPT !.streaks.dates = sorted,
                              !.streaks.current = current,
                              !.streaks.longest = current]

\* updateStreaks that leaves longest alone
updateStreaksNoLongest(data, day, east) ==
    LET dates == data.streaks.dates
    IN  IF Len(dates) = 0 THEN [data EXCEPT !.streaks.current = 0]
        ELSE LET sorted        == SortReverse(Range(dates))
                 diffFromToday == day - sorted[1]
             IN  IF diffFromToday > 1
                 THEN [data EXCEPT !.streaks.dates = sorted, !.streaks.current = 0]
                 ELSE [data EXCEPT !.streaks.dates = sorted,
                          !.streaks.current =
                              streakLoop(sorted, 1, day, diffFromToday, east, 0)]

\* updateStreaks that counts on from the stored current
updateStreaksAccumulate(data, day, east) ==
    LET dates == data.streaks.dates
    IN  IF Len(dates) = 0 THEN [data EXCEPT !.streaks.current = 0]
        ELSE LET sorted        == SortReverse(Range(dates))
                 diffFromToday == day - sorted[1]
             IN  IF diffFromToday > 1
                 THEN [data EXCEPT !.streaks.dates = sorted, !.streaks.current = 0]
                 ELSE LET current == streakLoop(sorted, 1, day, diffFromToday, east,
                                                data.streaks.current)
                      IN  [data EXCEPT !.streaks.dates = sorted,
                              !.streaks.current = current,
                              !.streaks.longest = Max(@, current)]

\* updateStreaks(data), on the day and in the zone of the call
updateStreaks(data, day, east) ==
    LET dates == data.streaks.dates
    IN  IF Len(dates) = 0 THEN [data EXCEPT !.streaks.current = 0]
        ELSE LET sorted        == SortReverse(Range(dates))
                 diffFromToday == day - sorted[1]
             IN  IF diffFromToday > 1
                 THEN [data EXCEPT !.streaks.dates = sorted, !.streaks.current = 0]
                 ELSE LET current == streakLoop(sorted, 1, day, diffFromToday, east, 0)
                      IN  [data EXCEPT !.streaks.dates = sorted,
                              !.streaks.current = current,
                              !.streaks.longest =
                                  IF current > @ THEN current ELSE @]

\* recordActivity(): the blob after the call
recordActivity(blob) ==
    LET data  == loadProgress(blob)
        data1 == IF ~Includes(data.streaks.dates, todayString)
                 THEN [data EXCEPT !.streaks.dates = Append(@, todayString)]
                 ELSE data
    IN  saveProgress(updateStreaks(data1, todayString, tzEast))

\* markChapterComplete that pushes without looking
chaptersAfterMarkAlways(chapters, chapterId, complete) ==
    IF complete THEN Append(chapters, chapterId) ELSE Filter(chapters, chapterId)

\* markChapterComplete: exam.chaptersCompleted after the call
chaptersAfterMark(chapters, chapterId, complete) ==
    IF complete /\ ~Includes(chapters, chapterId) THEN Append(chapters, chapterId)
    ELSE IF ~complete THEN Filter(chapters, chapterId)
    ELSE chapters

\* markTopicStudied: exam.topicsStudied after the call
topicsAfterMark(topics, topicId, studied) ==
    IF studied /\ ~Includes(topics, topicId) THEN Append(topics, topicId)
    ELSE IF ~studied THEN Filter(topics, topicId)
    ELSE topics

\* markChapterComplete(examId, chapterId, complete): the blob after the call
markChapterComplete(blob, examId, chapterId, complete) ==
    LET data == ensureExam(loadProgress(blob), examId)
        exam == data.exams[examId]
        data1 == [data EXCEPT !.exams[examId] =
                    [exam EXCEPT !.chaptersCompleted =
                                    chaptersAfterMark(@, chapterId, complete),
                                 !.lastActivity = now]]
    IN  recordActivity(saveProgress(data1))

\* markTopicStudied(examId, topicId, studied): the blob after the call
markTopicStudied(blob, examId, topicId, studied) ==
    LET data == ensureExam(loadProgress(blob), examId)
        exam == data.exams[examId]
        data1 == [data EXCEPT !.exams[examId] =
                    [exam EXCEPT !.topicsStudied =
                                    topicsAfterMark(@, topicId, studied),
                                 !.lastActivity = now]]
    IN  recordActivity(saveProgress(data1))

\* a saveQuizScore that puts the new record first (unshift)
saveQuizScoreUnshift(blob, examId, score, total, passed) ==
    LET data == ensureExam(loadProgress(blob), examId)
        exam == data.exams[examId]
        data1 == [data EXCEPT !.exams[examId] =
                    [exam EXCEPT !.quizScores =
                                    <<[date |-> now, score |-> score,
                                       total |-> total, passed |-> passed]>> \o @,
                                 !.lastActivity = now]]
    IN  recordActivity(saveProgress(data1))

\* saveQuizScore(examId, score, total, passed): the blob after the call
saveQuizScore(blob, examId, score, total, passed) ==
    LET data == ensureExam(loadProgress(blob), examId)
        exam == data.exams[examId]
        data1 == [data EXCEPT !.exams[examId] =
                    [exam EXCEPT !.quizScores =
                                    Append(@, [date |-> now, score |-> score,
                                               total |-> total, passed |-> passed]),
                                 !.lastActivity = now]]
    IN  recordActivity(saveProgress(data1))

\* getExamProgress(examId)
getExamProgress(blob, examId) ==
    LET data == loadProgress(blob)
    IN  IF data.exams[examId].present THEN data.exams[examId]
        ELSE getDefaultExamProgress

\* a getExamProgress that goes through ensureExam and saves
getExamProgressEnsures(blob, examId) ==
    saveProgress(ensureExam(loadProgress(blob), examId))

\* getExamProgress(examId): the blob after the call; loadProgress only reads
getExamProgressStore(blob, examId) == blob

\* exportProgress(): the snapshot of the store
exportProgress(blob) == loadProgress(blob)

\* a reset that clears the exams and keeps the streak
resetProgressExamsOnly(blob) ==
    [stored |-> TRUE, exams |-> getDefaultProgress.exams, streaks |-> blob.streaks]

\* resetProgress(): localStorage.removeItem
resetProgress(blob) == NoBlob

\* the two keys of localStorage
Storage(progressBlob, flashcardBlob) ==
    [lf_progress |-> progressBlob, lf_flashcards |-> flashcardBlob]

\* a reset by localStorage.clear()
resetProgressClears(storage) ==
    [lf_progress |-> resetProgress(storage.lf_progress),
     lf_flashcards |-> EmptyLeitner]

\* resetProgress(): localStorage after removeItem(STORAGE_KEY)
resetProgressStorage(storage) ==
    [storage EXCEPT !.lf_progress = resetProgress(@)]

\* ---- importProgress ----
\* an append loop without the date test
RECURSIVE appendAllScores(_, _, _)
appendAllScores(scores, existingDates, imported) ==
    IF imported = <<>> THEN scores
    ELSE appendAllScores(Append(scores, Head(imported)), existingDates,
                         Tail(imported))

\* quizScores after the append loop: the imported records with a date that
\* is not among the dates stored before the loop
RECURSIVE appendNewScores(_, _, _)
appendNewScores(scores, existingDates, imported) ==
    IF imported = <<>> THEN scores
    ELSE LET quiz == Head(imported)
         IN  appendNewScores(
                 IF quiz.date # NoTime /\ quiz.date \notin existingDates
                 THEN Append(scores, quiz) ELSE scores,
                 existingDates, Tail(imported))

\* a null among the quizScores of a snapshot: quiz.date throws on it
NullQuiz == [date |-> NoTime, score |-> -1, total |-> -1, passed |-> FALSE]

\* the index of the first null among the imported records, 0 when none
firstNullQuiz(imported) ==
    IF \E i \in DOMAIN imported : imported[i] = NullQuiz
    THEN CHOOSE i \in DOMAIN imported :
            /\ imported[i] = NullQuiz
            /\ \A j \in 1..(i - 1) : imported[j] # NullQuiz
    ELSE 0

\* the loop body throws: examData is null (examData.topicsStudied) or a
\* record of its quizScores is null (quiz.date)
mergeThrows(examData) ==
    examData.isNull \/ firstNullQuiz(examData.quizScores) # 0

\* an import that overwrites lastActivity with the imported one
laterActivityImported(existing, imported) ==
    IF imported # NoTime THEN imported ELSE existing

\* the later of the stored and the imported lastActivity
laterActivity(existing, imported) ==
    IF imported # NoTime /\ (existing = NoTime \/ imported > existing)
    THEN imported ELSE existing

\* a union that keeps the duplicates of the imported list
mergeIdsConcat(existing, imported) == existing \o imported

\* new Set([...existing, ...imported]) spread back into an array
mergeIds(existing, imported) == SetSpread(existing \o imported)

\* the body of the for loop over imported.exams, for one exam
mergeExam(existing, examData) ==
    [present            |-> TRUE,
     topicsStudied      |-> mergeIds(existing.topicsStudied, examData.topicsStudied),
     chaptersCompleted  |-> mergeIds(existing.chaptersCompleted,
                                     examData.chaptersCompleted),
     quizScores         |-> appendNewScores(existing.quizScores,
                                {existing.quizScores[i].date :
                                    i \in DOMAIN existing.quizScores},
                                examData.quizScores),
     flashcardsMastered |-> Max(existing.flashcardsMastered,
                                examData.flashcardsMastered),
     lastActivity       |-> laterActivity(existing.lastActivity,
                                          examData.lastActivity)]

\* a merge that takes the imported current instead of recomputing
mergeStreaksImportsCurrent(data, imported) ==
    IF ~imported.hasDates THEN data
    ELSE [data EXCEPT !.streaks.dates = SortReverse(Range(@ \o imported.dates)),
                      !.streaks.longest = Max(Max(@, imported.longest),
                                              imported.current),
                      !.streaks.current = imported.current]

\* the merge of the streak dates and longest, then updateStreaks
mergeStreaks(data, imported) ==
    IF ~imported.hasDates THEN data
    ELSE updateStreaks(
            [data EXCEPT !.streaks.dates = SetSpread(@ \o imported.dates),
                         !.streaks.longest = Max(@, imported.longest)],
            todayString, tzEast)

\* the exam entry in memory when the loop body throws: created by
\* ensureExam for a null entry, else with the ids merged and the records
\* before the null one appended
mergeExamUntilThrow(existing, examData) ==
    IF examData.isNull THEN existing
    ELSE [existing EXCEPT
            !.topicsStudied = mergeIds(@, examData.topicsStudied),
            !.chaptersCompleted = mergeIds(@, examData.chaptersCompleted),
            !.quizScores = appendNewScores(@,
                {existing.quizScores[i].date : i \in DOMAIN existing.quizScores},
                SubSeq(examData.quizScores, 1,
                       firstNullQuiz(examData.quizScores) - 1))]

\* the try block throws: the payload does not parse or is not an object, or
\* the loop body throws on one of its exams
importThrows(imported) ==
    \/ ~imported.ok
    \/ \E e \in ExamIds : imported.exams[e].present /\ mergeThrows(imported.exams[e])

\* 'current' when the try block is left: merged up to the throw, or all of it
importMerged(blob, imported) ==
    LET current == loadProgress(blob)
        merged  == [current EXCEPT !.exams =
                      [e \in ExamIds |->
                         IF ~imported.exams[e].present THEN current.exams[e]
                         ELSE IF mergeThrows(imported.exams[e])
                         THEN mergeExamUntilThrow(ensureExam(current, e).exams[e],
                                                  imported.exams[e])
                         ELSE mergeExam(ensureExam(current, e).exams[e],
                                        imported.exams[e])]]
    IN  IF importThrows(imported) THEN merged ELSE mergeStreaks(merged, imported)

\* an import that saves in a finally block
importProgressSavesPartial(blob, imported) ==
    IF ~imported.ok THEN blob ELSE saveProgress(importMerged(blob, imported))

\* importProgress(json): the blob after the call; saveProgress is the last
\* statement of the try block
importProgress(blob, imported) ==
    IF importThrows(imported) THEN blob
    ELSE saveProgress(importMerged(blob, imported))

\* importProgress(json): its return value
importProgressResult(blob, imported) == ~importThrows(imported)

\* JSON.parse(exportProgress()): the snapshot of the store as a payload
exportedSnapshot(blob) ==
    LET data == loadProgress(blob)
    IN  [ok |-> TRUE,
         exams |-> [e \in ExamIds |->
                      [present |-> data.exams[e].present, isNull |-> FALSE,
                       topicsStudied |-> data.exams[e].topicsStudied,
                       chaptersCompleted |-> data.exams[e].chaptersCompleted,
                       quizScores |-> data.exams[e].quizScores,
                       flashcardsMastered |-> data.exams[e].flashcardsMastered,
                       lastActivity |-> data.exams[e].lastActivity]],
         hasDates |-> TRUE, dates |-> data.streaks.dates,
         longest |-> data.streaks.longest, current |-> data.streaks.current]

\* ---- the chapter page (learn.js) ----
\* loadProgress, ensureExam and saveProgressData of learn.js
learnLoadProgress(blob) ==
    IF ~blob.stored THEN getDefaultProgress
    ELSE [exams |-> blob.exams, streaks |-> blob.streaks]

learnEnsureExam(data, examId) ==
    IF data.exams[examId].present THEN data
    ELSE [data EXCEPT !.exams[examId] = getDefaultExamProgress]

saveProgressData(data) ==
    [stored |-> TRUE, exams |-> data.exams, streaks |-> data.streaks]

\* the click handler of the 'Mark Complete' button
chapterToggle(blob, examId, chapterId) ==
    LET current == learnEnsureExam(learnLoadProgress(blob), examId)
        exam    == current.exams[examId]
    IN  IF Includes(exam.chaptersCompleted, chapterId)
        THEN saveProgressData(
                [current EXCEPT !.exams[examId].chaptersCompleted =
                                    Filter(@, chapterId)])
        ELSE saveProgressData(
                [current EXCEPT
                    !.exams[examId].chaptersCompleted = Append(@, chapterId),
                    !.exams[examId].lastActivity = now,
                    !.streaks.dates = IF ~Includes(@, today)
                                      THEN Append(@, today) ELSE @])

\* Math.round((correct / total) * 100)
percentOf(correct, total) ==
    IF total > 0 THEN (200 * correct + total) \div (2 * total) ELSE 0

\* showQuizSummary(correct, total): the blob after the score is saved
showQuizSummary(blob, examId, correct, total) ==
    LET progressData == learnEnsureExam(learnLoadProgress(blob), examId)
    IN  saveProgressData(
            [progressData EXCEPT
                !.exams[examId].quizScores =
                    Append(@, [date |-> now, score |-> correct, total |-> total,
                               passed |-> percentOf(correct, total) >= 70]),
                !.exams[examId].lastActivity = now])

\* ---- the results of the quiz page ----
\* the catalogue entries the quiz page finds
ExamMetas ==
    {NoExamMeta} \cup {[known |-> TRUE, passingScore |-> p] : p \in {70, 72}}

\* a percentage that drops the fraction
scorePercentFloor(correct, count) == (100 * correct) \div count

\* showResults: Math.round((correct / state.count) * 100), count >= 1
scorePercent(correct, count) == (200 * correct + count) \div (2 * count)

\* showResults: state.examMeta ? state.examMeta.passingScore : 70
passingScoreOf(examMeta) ==
    IF examMeta.known THEN examMeta.passingScore ELSE 70

\* showResults: passed
quizPassed(correct, count, examMeta) ==
    scorePercent(correct, count) >= passingScoreOf(examMeta)

\* showResults: the blob after saveQuizScore(examId, correct, count, passed)
showResults(blob, examId, correct, count, examMeta) ==
    saveQuizScore(blob, examId, correct, count,
                  quizPassed(correct, count, examMeta))

\* ========================= THE FLASHCARD PAGE ===========================
ZeroStats == [mastered |-> 0, reviewing |-> 0, total |-> 0]
NotFetching == [active |-> FALSE, deck |-> <<>>]

\* data.cards of the exam, after the topic filter; <<>> when the deck file
\* is missing or empty
Decks == {<<>>, <<"c1">>, <<"c2", "c3">>, Deck}

\* renderCard(): what the root shows for this index
renderCardView(queue, idx) == IF idx >= Len(queue) THEN "summary" ELSE "card"

\* renderCard(): the getCardState of the displayed card
renderCardMap(st, queue, idx) ==
    IF idx >= Len(queue) THEN st ELSE getCardStateMap(st, queue[idx + 1])

\* an answer that forgets the cap
boxAfterAnswerNoCap(box, knowIt) == IF knowIt THEN box + 1 ELSE 1

\* an answer that demotes by one box instead of resetting
boxAfterAnswerDemote(box, knowIt) ==
    IF knowIt THEN Min(box + 1, 5) ELSE Max(box - 1, 1)

\* handleAnswer: state.box after the answer
boxAfterAnswer(box, knowIt) == IF knowIt THEN Min(box + 1, 5) ELSE 1

\* an answer that schedules with the interval of the box the card left
nextReviewOldBox(newBox, knowIt) ==
    IF knowIt THEN addDays(todayISO, BOX_INTERVALS[Max(newBox - 1, 1)])
    ELSE todayISO

\* handleAnswer: state.nextReview after the answer, for the new box
nextReviewAfterAnswer(newBox, knowIt) ==
    IF knowIt THEN addDays(todayISO, BOX_INTERVALS[newBox]) ELSE todayISO

\* handleAnswer: sessionStats after the answer
statsAfterAnswer(stats, knowIt) ==
    IF knowIt THEN [stats EXCEPT !.mastered = @ + 1]
    ELSE [stats EXCEPT !.reviewing = @ + 1]

\* saveLeitnerState(): the blob after the write
saveLeitnerState(blob, st) == st

\* saveLeitnerState() when setItem throws: the catch swallows the error and
\* the blob keeps its value
saveLeitnerStateFull(blob, st) == blob

NoAnswer == [answered |-> FALSE, knowIt |-> FALSE, before |-> 0, after |-> 0]

\* the flashcard page never reads the zone
InitCards ==
    /\ today = 0
    /\ now = 0
    /\ tzEast = FALSE
    /\ leitnerState = EmptyLeitner
    /\ cardBlob = EmptyLeitner
    /\ studyQueue = <<>>
    /\ currentIndex = 0
    /\ sessionStats = ZeroStats
    /\ view = "selector"
    /\ fetching = NotFetching
    /\ pendingAdvance = 0
    /\ lastAnswer = NoAnswer
    /\ progress = NoBlob
    /\ PagesIdle

\* startSession up to its await: the form's submit handler, initFlashcards
\* with ?exam=, or 'Review Again' on the summary (no topic filter)
StartSession(deck) ==
    /\ ~fetching.active
    /\ \/ view = "selector"
       \/ view = "summary" /\ deck \in {<<>>, Deck}
    /\ sessionStats' = ZeroStats
    /\ leitnerState' = loadLeitnerState(cardBlob)
    /\ view' = "loading"
    /\ fetching' = [active |-> TRUE, deck |-> deck]
    /\ UNCHANGED <<cardBlob, studyQueue, currentIndex, pendingAdvance, lastAnswer>>
    /\ UNCHANGED <<envVars, progVars, pageVars>>

\* startSession after the await
SessionLoaded ==
    /\ fetching.active
    /\ fetching' = NotFetching
    /\ IF fetching.deck = <<>>
       THEN /\ view' = "empty"
            /\ UNCHANGED <<leitnerState, studyQueue, currentIndex, sessionStats>>
       ELSE LET queue == sortCards(leitnerState, fetching.deck)
                st    == sortCardsMap(leitnerState, fetching.deck)
            IN  /\ studyQueue' = queue
                /\ currentIndex' = 0
                /\ sessionStats' = [sessionStats EXCEPT !.total = Len(queue)]
                /\ leitnerState' = renderCardMap(st, queue, 0)
                /\ view' = renderCardView(queue, 0)
    /\ UNCHANGED <<cardBlob, pendingAdvance, lastAnswer>>
    /\ UNCHANGED <<envVars, progVars, pageVars>>

\* handleAnswer(knowIt, cardEl) on the displayed card; full says that
\* setItem throws in saveLeitnerState (the quota is exceeded)
Answer(knowIt, full) ==
    /\ view = "card"
    /\ currentIndex < Len(studyQueue)
    /\ pendingAdvance < MaxPending
    /\ LET id     == studyQueue[currentIndex + 1]
           st     == getCardStateMap(leitnerState, id)
           newBox == boxAfterAnswer(st[id].box, knowIt)
       IN  IF newBox \notin DOMAIN BOX_INTERVALS
           THEN \* addDays(today, undefined) throws: the box is already
                \* written to the shared state object, nothing else happens
                /\ leitnerState' = [st EXCEPT ![id].box = newBox]
                /\ UNCHANGED <<cardBlob, sessionStats, pendingAdvance, lastAnswer>>
           ELSE LET st2 == [st EXCEPT ![id] =
                              [present |-> TRUE, box |-> newBox,
                               nextReview |-> nextReviewAfterAnswer(newBox, knowIt)]]
                IN  /\ leitnerState' = st2
                    /\ cardBlob' = IF full THEN saveLeitnerStateFull(cardBlob, st2)
                                 ELSE saveLeitnerState(cardBlob, st2)
                    /\ sessionStats' = statsAfterAnswer(sessionStats, knowIt)
                    /\ pendingAdvance' = pendingAdvance + 1
                    /\ lastAnswer' = [answered |-> TRUE, knowIt |-> knowIt,
                                      before |-> st[id].box, after |-> newBox]
    /\ UNCHANGED <<studyQueue, currentIndex, view, fetching>>
    /\ UNCHANGED <<envVars, progVars, pageVars>>

\* handleAnswer(knowIt, cardEl): a button click, an arrow key or a swipe on
\* the displayed card, with room in storage
HandleAnswer(knowIt) == Answer(knowIt, FALSE)

\* the same answer when storage is full
HandleAnswerFull(knowIt) == Answer(knowIt, TRUE)

\* the setTimeout callback of handleAnswer: currentIndex++; renderCard()
AdvanceTimeout ==
    /\ pendingAdvance > 0
    /\ pendingAdvance' = pendingAdvance - 1
    /\ currentIndex' = currentIndex + 1
    /\ view' = renderCardView(studyQueue, currentIndex + 1)
    /\ leitnerState' = renderCardMap(leitnerState, studyQueue, currentIndex + 1)
    /\ UNCHANGED <<cardBlob, studyQueue, sessionStats, fetching, lastAnswer>>
    /\ UNCHANGED <<envVars, progVars, pageVars>>

\* leaving or reloading the page: the module state is gone, the blob stays
ReloadCards ==
    /\ leitnerState' = EmptyLeitner
    /\ studyQueue' = <<>>
    /\ currentIndex' = 0
    /\ sessionStats' = ZeroStats
    /\ view' = "selector"
    /\ fetching' = NotFetching
    /\ pendingAdvance' = 0
    /\ lastAnswer' = NoAnswer
    /\ UNCHANGED cardBlob
    /\ UNCHANGED <<envVars, progVars, pageVars>>

\* UTC midnight passes
NextDay ==
    /\ today' = today + 1
    /\ now' = now + 1
    /\ UNCHANGED tzEast

CardsNextDay == today < MaxCardDay /\ NextDay /\ UNCHANGED <<cardVars, progVars, pageVars>>

NextCards ==
    \/ \E deck \in Decks : StartSession(deck)
    \/ SessionLoaded
    \/ \E knowIt \in BOOLEAN : HandleAnswer(knowIt)
    \/ AdvanceTimeout
    \/ ReloadCards
    \/ CardsNextDay

SpecCards == InitCards /\ [][NextCards]_vars

\* the decks of a session in which storage may be full: one card by topic,
\* or the whole deck
QuotaDecks == {<<"c1">>, Deck}

\* the flashcard page within one day, every write of an answer succeeding
\* or failing
NextQuota ==
    \/ \E deck \in QuotaDecks : StartSession(deck)
    \/ SessionLoaded
    \/ \E knowIt \in BOOLEAN : HandleAnswer(knowIt)
    \/ \E knowIt \in BOOLEAN : HandleAnswerFull(knowIt)
    \/ AdvanceTimeout
    \/ ReloadCards

SpecQuota == InitCards /\ [][NextQuota]_vars

\* ===================== THE PAGES OF THE PROGRESS STORE ==================
\* an exam entry of a snapshot; an absent array reads as empty, a missing
\* counter as 0 and a missing timestamp as null
NoImportExam ==
    [present |-> FALSE, isNull |-> FALSE, topicsStudied |-> <<>>,
     chaptersCompleted |-> <<>>, quizScores |-> <<>>, flashcardsMastered |-> 0,
     lastActivity |-> NoTime]

\* exam entries of snapshots: repeated ids, a score record, or neither
ImportExamFull ==
    [present |-> TRUE, isNull |-> FALSE, topicsStudied |-> <<"t1", "t1">>,
     chaptersCompleted |-> <<"ch2", "ch1", "ch2">>,
     quizScores |-> <<[date |-> 0, score |-> 1, total |-> 2, passed |-> FALSE]>>,
     flashcardsMastered |-> 2, lastActivity |-> 1]

ImportExamIds ==
    [present |-> TRUE, isNull |-> FALSE, topicsStudied |-> <<"t2", "t1">>,
     chaptersCompleted |-> <<"ch1", "ch1">>, quizScores |-> <<>>,
     flashcardsMastered |-> 0, lastActivity |-> NoTime]

\* a null entry, as in {"exams": {"sie": null}}
ImportExamNull ==
    [present |-> TRUE, isNull |-> TRUE, topicsStudied |-> <<>>,
     chaptersCompleted |-> <<>>, quizScores |-> <<>>, flashcardsMastered |-> 0,
     lastActivity |-> NoTime]

\* an entry whose quizScores holds a record and then a null
ImportExamBadQuiz ==
    [present |-> TRUE, isNull |-> FALSE, topicsStudied |-> <<"t2">>,
     chaptersCompleted |-> <<"ch2">>,
     quizScores |-> <<[date |-> 1, score |-> 2, total |-> 2, passed |-> TRUE],
                      NullQuiz>>,
     flashcardsMastered |-> 3, lastActivity |-> 2]

\* an entry with two records of one date and a record without a date
ImportExamScores ==
    [present |-> TRUE, isNull |-> FALSE, topicsStudied |-> <<>>,
     chaptersCompleted |-> <<>>,
     quizScores |-> <<[date |-> 1, score |-> 1, total |-> 2, passed |-> FALSE],
                      [date |-> 1, score |-> 2, total |-> 2, passed |-> TRUE],
                      [date |-> NoTime, score |-> 0, total |-> 2, passed |-> FALSE]>>,
     flashcardsMastered |-> 1, lastActivity |-> NoTime]

\* the streaks of a snapshot: none, or dates (unsorted, repeated, ahead of
\* the clock) with longest and current
NoImportStreaks == [hasDates |-> FALSE, dates |-> <<>>, longest |-> 0, current |-> 0]

ImportStreaks ==
    { NoImportStreaks,
      [hasDates |-> FALSE, dates |-> <<>>, longest |-> 3, current |-> 2],
      [hasDates |-> TRUE, dates |-> <<>>, longest |-> 0, current |-> 0],
      [hasDates |-> TRUE, dates |-> <<0, 1, 1>>, longest |-> 1, current |-> 3],
      [hasDates |-> TRUE, dates |-> <<2, 0>>, longest |-> 3, current |-> 0],
      [hasDates |-> TRUE, dates |-> <<MaxDay + 1>>, longest |-> 0, current |-> 1] }

\* the files a user can import: not a JSON object, or a snapshot with an
\* entry for at most one exam
Snapshots(examIds, examEntries, streakParts) ==
    { [ok |-> FALSE, exams |-> [e \in ExamIds |-> NoImportExam],
       hasDates |-> FALSE, dates |-> <<>>, longest |-> 0, current |-> 0] }
    \cup
    { [ok |-> TRUE,
       exams |-> [e \in ExamIds |-> IF e = x THEN d ELSE NoImportExam],
       hasDates |-> st.hasDates, dates |-> st.dates, longest |-> st.longest,
       current |-> st.current] :
        x \in examIds, d \in examEntries, st \in streakParts }

\* the files imported into the store of one exam
StorePayloads == Snapshots({"sie"}, {NoImportExam, ImportExamFull}, ImportStreaks)

\* the files of the import page: every kind of exam entry without streaks,
\* every kind of streaks with and without an exam entry
ImportPayloads ==
    Snapshots({"sie"},
              {ImportExamFull, ImportExamNull, ImportExamBadQuiz, ImportExamScores},
              {NoImportStreaks})
    \cup Snapshots({"sie"}, {NoImportExam, ImportExamFull}, ImportStreaks)

\* the (score, total, passed) a quiz page reports
QuizResults == {<<1, 2, FALSE>>, <<2, 2, TRUE>>}

ScoresFit(blob) ==
    \A e \in ExamIds : Len(blob.exams[e].quizScores) <= MaxScores

InitProgress ==
    /\ today = 0
    /\ now = 0
    /\ tzEast \in BOOLEAN
    /\ leitnerState = EmptyLeitner
    /\ cardBlob = EmptyLeitner
    /\ studyQueue = <<>>
    /\ currentIndex = 0
    /\ sessionStats = ZeroStats
    /\ view = "selector"
    /\ fetching = NotFetching
    /\ pendingAdvance = 0
    /\ lastAnswer = NoAnswer
    /\ progress = NoBlob
    /\ PagesIdle

RecordActivity ==
    /\ progress' = recordActivity(progress)
    /\ UNCHANGED <<envVars, cardVars, pageVars>>

MarkChapterComplete(examId, chapterId, complete) ==
    /\ progress' = markChapterComplete(progress, examId, chapterId, complete)
    /\ UNCHANGED <<envVars, cardVars, pageVars>>

MarkTopicStudied(examId, topicId, studied) ==
    /\ progress' = markTopicStudied(progress, examId, topicId, studied)
    /\ UNCHANGED <<envVars, cardVars, pageVars>>

SaveQuizScore(examId, r) ==
    /\ progress' = saveQuizScore(progress, examId, r[1], r[2], r[3])
    /\ ScoresFit(progress')
    /\ UNCHANGED <<envVars, cardVars, pageVars>>

ImportProgress(imported) ==
    /\ progress' = importProgress(progress, imported)
    /\ ScoresFit(progress')
    /\ UNCHANGED <<envVars, cardVars, pageVars>>

ResetProgress ==
    /\ LET after == resetProgressStorage(Storage(progress, cardBlob))
       IN  /\ progress' = after.lf_progress
           /\ cardBlob' = after.lf_flashcards
    /\ UNCHANGED <<envVars, sessionVars, pageVars>>

\* the chapter page's 'Mark Complete' button
ChapterToggle(examId, chapterId) ==
    /\ progress' = chapterToggle(progress, examId, chapterId)
    /\ UNCHANGED <<envVars, cardVars, pageVars>>

\* the last question of a lesson quiz is answered
LessonQuizSave(examId, correct, total) ==
    /\ progress' = showQuizSummary(progress, examId, correct, total)
    /\ ScoresFit(progress')
    /\ UNCHANGED <<envVars, cardVars, pageVars>>

ProgressNextDay == today < MaxDay /\ NextDay /\ UNCHANGED <<cardVars, progVars, pageVars>>

\* the operations of the store on the given exams, chapters, topics and
\* import files
StoreOps(examIds, chapterIds, topicIds, payloads) ==
    \/ RecordActivity
    \/ \E e \in examIds, c \in chapterIds, b \in BOOLEAN : MarkChapterComplete(e, c, b)
    \/ \E e \in examIds, t \in topicIds, b \in BOOLEAN : MarkTopicStudied(e, t, b)
    \/ \E e \in examIds, r \in QuizResults : SaveQuizScore(e, r)
    \/ \E p \in payloads : ImportProgress(p)
    \/ ResetProgress
    \/ \E e \in examIds, c \in chapterIds : ChapterToggle(e, c)
    \/ \E e \in examIds : LessonQuizSave(e, 1, 2)

\* the store over several days: one exam, one chapter, one topic, and
\* snapshots with every kind of streak
Next ==
    \/ /\ StoreOps({"sie"}, {"ch1"}, {"t1"}, StorePayloads)
       /\ Len(progress'.exams["sie"].quizScores) <= MaxScoresOverDays
    \/ ProgressNextDay

Spec == InitProgress /\ [][Next]_vars

\* the import page over several days, on a store written by recordActivity,
\* the chapter mark, the chapter page and a passed quiz
NextImport ==
    \/ RecordActivity
    \/ \E b \in BOOLEAN : MarkChapterComplete("sie", "ch1", b)
    \/ ChapterToggle("sie", "ch1")
    \/ /\ SaveQuizScore("sie", <<2, 2, TRUE>>)
       /\ Len(progress'.exams["sie"].quizScores) <= MaxScoresOverDays
    \/ \E p \in ImportPayloads :
          /\ ImportProgress(p)
          /\ Len(progress'.exams["sie"].quizScores) <= MaxScoresOverDays
    \/ ProgressNextDay

SpecImport == InitProgress /\ [][NextImport]_vars

\* the store within one day, with more score records: one exam, and
\* snapshots without streaks
ScorePayloads ==
    Snapshots({"sie"},
              {ImportExamFull, ImportExamNull, ImportExamBadQuiz, ImportExamScores},
              {NoImportStreaks})

NextScores == StoreOps({"sie"}, {"ch1"}, {"t1"}, ScorePayloads)

SpecScores == InitProgress /\ [][NextScores]_vars

\* the files imported into the store of both exams
MarkPayloads ==
    Snapshots(ExamIds, {ImportExamFull, ImportExamIds}, {NoImportStreaks})

\* marks, unmarks, chapter-page toggles and imports within one day, on
\* every exam, chapter and topic, with snapshots that repeat ids
NextMarks ==
    \/ \E e \in ExamIds, c \in ChapterIds, b \in BOOLEAN : MarkChapterComplete(e, c, b)
    \/ \E e \in ExamIds, t \in TopicIds, b \in BOOLEAN : MarkTopicStudied(e, t, b)
    \/ \E e \in ExamIds, c \in ChapterIds : ChapterToggle(e, c)
    \/ \E p \in MarkPayloads : ImportProgress(p)

SpecMarks == InitProgress /\ [][NextMarks]_vars

\* ---- both pages on one storage: a flashcard session and the store ----
\* the file imported while a session runs
BlobPayloads == Snapshots({"sie"}, {ImportExamFull}, {NoImportStreaks})

\* the decks of that session: two cards, or a deck file that is missing
BlobDecks == {<<>>, <<"c1", "c2">>}

\* a flashcard session within one day, interleaved with the operations of
\* the store
NextBlobs ==
    \/ \E deck \in BlobDecks : StartSession(deck)
    \/ SessionLoaded
    \/ \E knowIt \in BOOLEAN : HandleAnswer(knowIt)
    \/ AdvanceTimeout
    \/ ReloadCards
    \/ RecordActivity
    \/ \E b \in BOOLEAN : MarkChapterComplete("sie", "ch1", b)
    \/ \E b \in BOOLEAN : MarkTopicStudied("sie", "t1", b)
    \/ /\ SaveQuizScore("sie", <<2, 2, TRUE>>)
       /\ Len(progress'.exams["sie"].quizScores) <= MaxScoresOverDays
    \/ /\ \E p \in BlobPayloads : ImportProgress(p)
       /\ Len(progress'.exams["sie"].quizScores) <= MaxScoresOverDays
    \/ ResetProgress

SpecBlobs == InitCards /\ [][NextBlobs]_vars

\* ---- the pass flag: results of quizzes of every length and score ----
\* showResults of a quiz of count questions, correct of them right
QuizShowResults(examId, correct, count, examMeta) ==
    /\ progress' = showResults(progress, examId, correct, count, examMeta)
    /\ UNCHANGED <<envVars, cardVars, pageVars>>

\* the first quiz or lesson quiz saved to an empty store, on one exam
NextPass ==
    \/ \E count \in 1..MaxQuestions, correct \in 0..MaxQuestions, m \in ExamMetas :
          /\ ~progress.stored
          /\ correct <= count
          /\ QuizShowResults("sie", correct, count, m)
    \/ \E total \in 0..MaxQuestions, correct \in 0..MaxQuestions :
          /\ ~progress.stored
          /\ correct <= total
          /\ LessonQuizSave("sie", correct, total)
    \/ ResetProgress

SpecPass == InitProgress /\ [][NextPass]_vars

\* ---- the quiz page ----
\* the interval callbacks of the timer are taken this many at a time
TickRun == 45

\* startQuiz: Math.round(state.count * 1.5 * 60)
totalSeconds(count) == count * 90

\* showResults: the number of questions whose answer is the correct choice
RECURSIVE correctCount(_)
correctCount(answers) ==
    IF answers = <<>> THEN 0
    ELSE (IF Head(answers) = "right" THEN 1 ELSE 0) + correctCount(Tail(answers))

\* showResults(root) on the state q: the results replace the quiz and the
\* score is saved
ShowResults(q) ==
    /\ quizPage' = [q EXCEPT !.phase = "results"]
    /\ progress' = showResults(progress, q.examId, correctCount(q.answers),
                               q.count, q.examMeta)
    /\ ScoresFit(progress')

\* submitQuiz(root) on the state q
SubmitQuiz(q) ==
    ShowResults([q EXCEPT !.submitted = TRUE, !.timerInterval = FALSE])

\* goToQuestion(index, root)
GoToQuestion(index) ==
    IF index < 0 \/ index >= quizPage.count
    THEN IF quizPage.submitted /\ index >= quizPage.count
         THEN ShowResults(quizPage)
         ELSE UNCHANGED <<quizPage, progress>>
    ELSE /\ quizPage' = [quizPage EXCEPT !.currentIndex = index]
         /\ UNCHANGED progress

\* startQuiz after its fetches, with state.count questions; renderQuiz
\* starts the timer of a timed quiz
StartQuiz(examId, count, timed, examMeta) ==
    /\ quizPage.phase = "idle"
    /\ quizPage' =
          [phase |-> "quiz", examId |-> examId, examMeta |-> examMeta,
           count |-> count, answers |-> [i \in 1..count |-> "none"],
           currentIndex |-> 0, timed |-> timed,
           secondsLeft |-> IF timed THEN totalSeconds(count) ELSE 0,
           timerInterval |-> timed, submitted |-> FALSE, reviewMode |-> FALSE]
    /\ UNCHANGED <<envVars, cardVars, progVars, rawProgress, thrown>>

\* selectAnswer(choiceIndex, root): the listener of a choice, attached
\* outside review mode before the quiz is submitted
SelectAnswer(choice) ==
    /\ quizPage.phase = "quiz"
    /\ ~quizPage.reviewMode
    /\ ~quizPage.submitted
    /\ quizPage' = [quizPage EXCEPT !.answers[quizPage.currentIndex + 1] = choice]
    /\ UNCHANGED <<envVars, cardVars, progVars, rawProgress, thrown>>

\* the click listener of #quiz-next; confirmed is the answer to confirm()
NextButton(confirmed) ==
    /\ quizPage.phase = "quiz"
    /\ IF quizPage.currentIndex = quizPage.count - 1 /\ ~quizPage.submitted
       THEN IF confirmed THEN SubmitQuiz(quizPage)
            ELSE UNCHANGED <<quizPage, progress>>
       ELSE GoToQuestion(quizPage.currentIndex + 1)
    /\ UNCHANGED <<envVars, cardVars, rawProgress, thrown>>

\* the click listener of #quiz-prev, disabled on the first question
PrevButton ==
    /\ quizPage.phase = "quiz"
    /\ quizPage.currentIndex > 0
    /\ GoToQuestion(quizPage.currentIndex - 1)
    /\ UNCHANGED <<envVars, cardVars, rawProgress, thrown>>

\* the callbacks of the interval of startTimer, TickRun in a row while that
\* many seconds are left; the one that reaches zero clears the interval and
\* submits
TimerTick ==
    /\ quizPage.timerInterval
    /\ LET n == IF quizPage.secondsLeft >= TickRun THEN TickRun ELSE 1
           q == [quizPage EXCEPT !.secondsLeft = @ - n]
       IN  IF q.secondsLeft <= 0
           THEN SubmitQuiz(q)
           ELSE quizPage' = q /\ UNCHANGED progress
    /\ UNCHANGED <<envVars, cardVars, rawProgress, thrown>>

\* the click listener of 'Review Answers' on the results
ReviewAnswers ==
    /\ quizPage.phase = "results"
    /\ quizPage' = [quizPage EXCEPT !.phase = "quiz", !.reviewMode = TRUE,
                                   !.currentIndex = 0,
                                   !.timerInterval = @ \/ quizPage.timed]
    /\ UNCHANGED <<envVars, cardVars, progVars, rawProgress, thrown>>

\* the click listener of 'Try Again' on the results
TryAgain ==
    /\ quizPage.phase = "results"
    /\ quizPage' = [quizPage EXCEPT
                      !.phase = "quiz",
                      !.answers = [i \in 1..quizPage.count |-> "none"],
                      !.currentIndex = 0, !.submitted = FALSE,
                      !.reviewMode = FALSE,
                      !.secondsLeft = IF quizPage.timed
                                      THEN totalSeconds(quizPage.count) ELSE @,
                      !.timerInterval = @ \/ quizPage.timed]
    /\ UNCHANGED <<envVars, cardVars, progVars, rawProgress, thrown>>

\* leaving or reloading the quiz page: its state and its interval are gone
ReloadQuiz ==
    /\ quizPage.phase # "idle"
    /\ quizPage' = QuizIdle
    /\ UNCHANGED <<envVars, cardVars, progVars, rawProgress, thrown>>

\* the quiz page within one day: quizzes of one and of two questions, with
\* and without the timer
NextQuiz ==
    \/ \E count \in 1..2, timed \in BOOLEAN : StartQuiz("sie", count, timed, NoExamMeta)
    \/ \E choice \in {"right", "wrong"} : SelectAnswer(choice)
    \/ \E confirmed \in BOOLEAN : NextButton(confirmed)
    \/ PrevButton
    \/ TimerTick
    \/ ReviewAnswers
    \/ TryAgain
    \/ ReloadQuiz

SpecQuiz == InitProgress /\ [][NextQuiz]_vars

\* ---- the store on a malformed stored value ----
\* what localStorage holds under the store's key: a progress object ("ok",
\* also when the key is missing), text that is not JSON, the JSON null, a
\* JSON number, the object {}, or {"exams": {"sie": {}}}, an exam entry
\* without topicsStudied and quizScores; for the last one `progress` holds
\* the entry with the missing arrays read as empty
RawShapes == {"ok", "unparseable", "null", "number", "noExams", "examEmpty"}

\* the shapes loadProgress answers with getDefaultProgress(): JSON.parse
\* throws, data.exams on null throws, an assignment to a property of a
\* number throws in a module, {} gets exams and streaks
DefaultedShapes == {"unparseable", "null", "number", "noExams"}

\* the stored progress object of a shape
RawContent(raw) ==
    IF raw = "examEmpty"
    THEN [stored |-> TRUE,
          exams |-> [e \in ExamIds |->
                       IF e = "sie" THEN [NoExam EXCEPT !.present = TRUE] ELSE NoExam],
          streaks |-> getDefaultProgress.streaks]
    ELSE NoBlob

\* the blob as loadProgress() reads it
loadProgressRaw(raw, blob) == IF raw \in DefaultedShapes THEN NoBlob ELSE blob

\* ensureExam returns an entry whose topicsStudied and quizScores are
\* undefined
entryLacksArrays(raw, examId) == raw = "examEmpty" /\ examId = "sie"

\* the shape after saveProgress(data): JSON.stringify writes a progress
\* object, in which a malformed exam entry stays as it was loaded
shapeAfterSave(raw) == IF raw = "examEmpty" THEN raw ELSE "ok"

InitMalformed ==
    /\ today = 0
    /\ now = 0
    /\ tzEast \in BOOLEAN
    /\ leitnerState = EmptyLeitner
    /\ cardBlob = EmptyLeitner
    /\ studyQueue = <<>>
    /\ currentIndex = 0
    /\ sessionStats = ZeroStats
    /\ view = "selector"
    /\ fetching = NotFetching
    /\ pendingAdvance = 0
    /\ lastAnswer = NoAnswer
    /\ rawProgress \in RawShapes
    /\ progress = RawContent(rawProgress)
    /\ thrown = FALSE
    /\ quizPage = QuizIdle

\* an operation that saved the blob `next`
SavedRaw(next) ==
    /\ progress' = next
    /\ rawProgress' = shapeAfterSave(rawProgress)
    /\ UNCHANGED <<thrown, quizPage, envVars, cardVars>>

\* an operation that threw a TypeError before it saved
ThrownRaw ==
    /\ thrown' = TRUE
    /\ UNCHANGED <<progress, rawProgress, quizPage, envVars, cardVars>>

RecordActivityRaw ==
    SavedRaw(recordActivity(loadProgressRaw(rawProgress, progress)))

\* markChapterComplete creates a missing chaptersCompleted
MarkChapterCompleteRaw(examId, chapterId, complete) ==
    SavedRaw(markChapterComplete(loadProgressRaw(rawProgress, progress),
                                 examId, chapterId, complete))

\* markTopicStudied calls exam.topicsStudied.includes or .filter
MarkTopicStudiedRaw(examId, topicId, studied) ==
    IF entryLacksArrays(rawProgress, examId) THEN ThrownRaw
    ELSE SavedRaw(markTopicStudied(loadProgressRaw(rawProgress, progress),
                                   examId, topicId, studied))

\* saveQuizScore calls exam.quizScores.push
SaveQuizScoreRaw(examId, r) ==
    IF entryLacksArrays(rawProgress, examId) THEN ThrownRaw
    ELSE /\ SavedRaw(saveQuizScore(loadProgressRaw(rawProgress, progress),
                                   examId, r[1], r[2], r[3]))
         /\ Len(progress'.exams[examId].quizScores) <= MaxScoresOverDays

\* importProgress: the spread of an undefined existing.topicsStudied throws
\* inside the try, as every failed import it returns false and saves nothing
ImportProgressRaw(imported) ==
    IF \/ importThrows(imported)
       \/ \E e \in ExamIds :
             /\ entryLacksArrays(rawProgress, e)
             /\ imported.exams[e].present
             /\ imported.exams[e].topicsStudied # <<>>
    THEN UNCHANGED vars
    ELSE /\ SavedRaw(importProgress(loadProgressRaw(rawProgress, progress), imported))
         /\ Len(progress'.exams["sie"].quizScores) <= MaxScoresOverDays

\* resetProgress removes the key whatever it holds
ResetProgressRaw ==
    /\ progress' = resetProgress(progress)
    /\ rawProgress' = "ok"
    /\ UNCHANGED <<thrown, quizPage, envVars, cardVars>>

\* the store's operations on one exam within one day, from every stored
\* shape
NextMalformed ==
    \/ RecordActivityRaw
    \/ \E c \in ChapterIds, b \in BOOLEAN : MarkChapterCompleteRaw("sie", c, b)
    \/ \E b \in BOOLEAN : MarkTopicStudiedRaw("sie", "t1", b)
    \/ SaveQuizScoreRaw("sie", <<2, 2, TRUE>>)
    \/ \E p \in BlobPayloads : ImportProgressRaw(p)
    \/ ResetProgressRaw

SpecMalformed == InitMalformed /\ [][NextMalformed]_vars

\* ---- sortCards on its own: startSession on every stored card state ----
\* a stored entry was written on some day up to today: box 1 with that day
\* (a lazy insertion or a 'still learning' answer) or a box reached by a
\* 'knows it' answer, scheduled from that day
StoredCardStates(day) ==
    {NoCard} \cup
    {[present |-> TRUE, box |-> b, nextReview |-> addDays(d, BOX_INTERVALS[b])] :
        b \in 1..5, d \in 0..day}

\* the deck file lists the cards in any order
DeckOrders ==
    {p \in [1..3 -> CardIds] : \A i, j \in 1..3 : p[i] = p[j] => i = j}

InitSort ==
    /\ today \in 0..MaxSortDay
    /\ now = today
    /\ tzEast = FALSE
    /\ cardBlob \in [CardIds -> StoredCardStates(today)]
    /\ leitnerState = loadLeitnerState(cardBlob)
    /\ studyQueue = <<>>
    /\ currentIndex = 0
    /\ sessionStats = ZeroStats
    /\ view = "loading"
    /\ fetching \in {[active |-> TRUE, deck |-> d] : d \in DeckOrders}
    /\ pendingAdvance = 0
    /\ lastAnswer = NoAnswer
    /\ progress = NoBlob
    /\ PagesIdle

NextSort == SessionLoaded

SpecSort == InitSort /\ [][NextSort]_vars

\* ======================= CLAIMS: the scheduler ==========================

\* the card handleAnswer is about, and its box when the handler reads it
AnsweredCard == studyQueue[currentIndex + 1]
BoxRead == IF leitnerState[AnsweredCard].present
           THEN leitnerState[AnsweredCard].box ELSE 1
KnowItStep == sessionStats'.mastered = sessionStats.mastered + 1
StillLearningStep == sessionStats'.reviewing = sessionStats.reviewing + 1

\* C1: whatever answers are given, in memory and in storage every card's
\* box is an integer in 1..5
C1_BoxInRange ==
    \A c \in CardIds :
        /\ leitnerState[c].present => leitnerState[c].box \in 1..5
        /\ cardBlob[c].present => cardBlob[c].box \in 1..5

\* a 'knows it' answer was given on a card already in box 5
C1_Witness ==
    /\ lastAnswer.answered /\ lastAnswer.knowIt
    /\ lastAnswer.before = 5 /\ lastAnswer.after = 5
    /\ \E c \in CardIds : leitnerState[c].present /\ leitnerState[c].box = 5

C3_StillLearningResets ==
    [][StillLearningStep =>
        /\ leitnerState'[AnsweredCard].box = 1
        /\ leitnerState'[AnsweredCard].nextReview = today'
        /\ leitnerState'[AnsweredCard].nextReview <= today'
        /\ leitnerState'[AnsweredCard].present]_vars

\* a card fell from box 3 to box 1
C3_Witness ==
    /\ lastAnswer.answered /\ ~lastAnswer.knowIt
    /\ lastAnswer.before = 3 /\ lastAnswer.after = 1
    /\ \E c \in CardIds :
          /\ leitnerState[c] = [present |-> TRUE, box |-> 1, nextReview |-> today]
          /\ isDue(leitnerState, c)

\* the composite key of a card: not-due flag, box, nextReview
KeyOf(st, c) ==
    LET s == IF st[c].present THEN st[c]
             ELSE [present |-> TRUE, box |-> 1, nextReview |-> today]
    IN  <<IF s.nextReview <= today THEN 0 ELSE 1, s.box, s.nextReview>>

KeyLess(k1, k2) ==
    \/ k1[1] < k2[1]
    \/ k1[1] = k2[1] /\ k1[2] < k2[2]
    \/ k1[1] = k2[1] /\ k1[2] = k2[2] /\ k1[3] < k2[3]

PositionIn(s, x) == CHOOSE i \in DOMAIN s : s[i] = x

\* out is the input ordered by the key, equal keys in input order
OrderedByKey(st, input, out) ==
    /\ Len(out) = Len(input)
    /\ Range(out) = Range(input)
    /\ \A i, j \in DOMAIN out :
          i < j =>
            /\ ~KeyLess(KeyOf(st, out[j]), KeyOf(st, out[i]))
            /\ KeyOf(st, out[i]) = KeyOf(st, out[j])
                 => PositionIn(input, out[i]) < PositionIn(input, out[j])

SortStep == fetching.active /\ ~fetching'.active /\ studyQueue' # <<>>
                /\ currentIndex' = 0 /\ view' = "card"

\* C4: the study queue startSession builds is a permutation of the deck
\* ordered by (not-due, box, nextReview) ascending: due before not due, then
\* boxes non-decreasing, then nextReview non-decreasing, ties in deck order
C4_SortCardsOrdered ==
    [][SortStep => OrderedByKey(leitnerState, fetching.deck, studyQueue')]_vars

\* a queue that is not in deck order: c3 is due in box 1, c2 is due in a
\* higher box, c1 is not due yet
C4_Witness ==
    /\ view = "card" /\ currentIndex = 0 /\ pendingAdvance = 0
    /\ studyQueue = <<"c3", "c2", "c1">>
    /\ leitnerState["c1"].nextReview > today
    /\ leitnerState["c2"].nextReview <= today
    /\ leitnerState["c2"].box > leitnerState["c3"].box
    /\ sessionStats = [mastered |-> 0, reviewing |-> 0, total |-> 3]

\* ====================== CLAIMS: the progress store ======================

\* the consecutive days of the set counting backward from day d
RECURSIVE DaysBackFrom(_, _)
DaysBackFrom(set, d) == IF d \in set THEN 1 + DaysBackFrom(set, d - 1) ELSE 0

\* the streak of a date set on a day: 0 when the most recent date is more
\* than a day old, else the run ending today, or yesterday when today has
\* no entry
StreakOf(set, day) ==
    IF set = {} THEN 0
    ELSE LET mostRecent == CHOOSE x \in set : \A y \in set : y <= x
         IN  IF day - mostRecent > 1 THEN 0
             ELSE IF day \in set THEN DaysBackFrom(set, day)
             ELSE DaysBackFrom(set, day - 1)

StoredDates == Range(progress.streaks.dates)

\* a step of an operation that ends in updateStreaks
StreakRecomputed ==
    \/ RecordActivity
    \/ \E e \in ExamIds, c \in ChapterIds, b \in BOOLEAN : MarkChapterComplete(e, c, b)
    \/ \E e \in ExamIds, t \in TopicIds, b \in BOOLEAN : MarkTopicStudied(e, t, b)
    \/ \E e \in ExamIds, r \in QuizResults : SaveQuizScore(e, r)
    \/ \E p \in StorePayloads :
          importProgressResult(progress, p) /\ p.hasDates /\ ImportProgress(p)

\* C5: after every streak recomputation current is the streak of the stored
\* dates: 0 when the most recent date is more than one day old, else the
\* consecutive days back from today, or from yesterday when today is absent
C5_StreakRecomputation ==
    [][StreakRecomputed =>
        progress'.streaks.current = StreakOf(Range(progress'.streaks.dates), today)]_vars

\* C6: a second recordActivity on the same day changes nothing: dates,
\* current and longest are what the first call left, today stored once
C6_RecordActivityIdempotent ==
    LET once  == recordActivity(progress)
        twice == recordActivity(once)
    IN  /\ twice.streaks.dates = once.streaks.dates
        /\ twice.streaks.current = once.streaks.current
        /\ twice.streaks.longest = once.streaks.longest
        /\ Cardinality({i \in DOMAIN twice.streaks.dates :
                            twice.streaks.dates[i] = today}) = 1

\* recordActivity has run today on a streak of two days or more
C6_Witness ==
    /\ progress.stored
    /\ progress = recordActivity(progress)
    /\ today \in StoredDates
    /\ today - 1 \in StoredDates
    /\ progress.streaks.current >= 2

NoDuplicates(seq) == \A i, j \in DOMAIN seq : seq[i] = seq[j] => i = j

\* C7: longest is never below current and no date is stored twice
C7_LongestAndDates ==
    /\ progress.streaks.longest >= progress.streaks.current
    /\ NoDuplicates(progress.streaks.dates)

\* a running streak shorter than the longest one, over several stored dates
C7_Witness ==
    /\ progress.streaks.current >= 1
    /\ progress.streaks.longest > progress.streaks.current
    /\ Cardinality(StoredDates) >= 2
    /\ today \in StoredDates

\* C8: the stored current is always the streak of the stored dates on the
\* current day
C8_CurrentNeverStale ==
    progress.streaks.current = StreakOf(StoredDates, today)

\* a step of an operation that changes an exam's progress
ExamMutated ==
    \/ \E e \in ExamIds, c \in ChapterIds, b \in BOOLEAN : MarkChapterComplete(e, c, b)
    \/ \E e \in ExamIds, t \in TopicIds, b \in BOOLEAN : MarkTopicStudied(e, t, b)
    \/ \E e \in ExamIds, r \in QuizResults : SaveQuizScore(e, r)
    \/ \E e \in ExamIds, c \in ChapterIds : ChapterToggle(e, c)
    \/ \E e \in ExamIds : LessonQuizSave(e, 1, 2)

\* C9: after every operation that changes an exam's progress today is among
\* the streak dates
C9_ActivityRecorded ==
    [][ExamMutated => today \in Range(progress'.streaks.dates)]_vars

Occurrences(seq, x) == Cardinality({i \in DOMAIN seq : seq[i] = x})

\* C10: no exam holds a chapter or topic id twice; marking a chapter leaves
\* exactly one occurrence of it and unmarking leaves none
C10_UniqueIds ==
    /\ [](\A e \in ExamIds :
            /\ NoDuplicates(progress.exams[e].chaptersCompleted)
            /\ NoDuplicates(progress.exams[e].topicsStudied))
    /\ [][\A e \in ExamIds, c \in ChapterIds :
            /\ MarkChapterComplete(e, c, TRUE)
                 => Occurrences(progress'.exams[e].chaptersCompleted, c) = 1
            /\ MarkChapterComplete(e, c, FALSE)
                 => Occurrences(progress'.exams[e].chaptersCompleted, c) = 0]_vars

\* both chapters and both topics of an exam are stored, merged from a
\* snapshot that repeats ids and from marks, another exam holds one chapter
C10_Witness ==
    /\ progress.exams["sie"].chaptersCompleted = <<"ch1", "ch2">>
    /\ Range(progress.exams["sie"].topicsStudied) = {"t1", "t2"}
    /\ progress.exams["s7"].chaptersCompleted = <<"ch2">>
    /\ progress.exams["s7"].lastActivity = 0

\* ================== CLAIMS: lastActivity and quizScores ==================

\* a step of an operation that mutates exam e: a mark or unmark, a saved
\* score, or the chapter page's toggle
ExamTouched(e) ==
    \/ \E c \in ChapterIds, b \in BOOLEAN : MarkChapterComplete(e, c, b)
    \/ \E t \in TopicIds, b \in BOOLEAN : MarkTopicStudied(e, t, b)
    \/ \E r \in QuizResults : SaveQuizScore(e, r)
    \/ \E c \in ChapterIds : ChapterToggle(e, c)

\* C11: every mark, unmark and saved score, and every toggle of the chapter
\* page, on and off, leaves the exam's lastActivity at the current time
C11_LastActivityIsLatest ==
    [][\A e \in ExamIds :
          ExamTouched(e) => progress'.exams[e].lastActivity = now]_vars

IsPrefix(s, t) == Len(s) <= Len(t) /\ SubSeq(t, 1, Len(s)) = s

C13_FailedImportKeepsStore ==
    \A p \in ImportPayloads :
        ~importProgressResult(progress, p) => importProgress(progress, p) = progress

\* a merge that throws after it changed the exam in memory, on a store that
\* holds progress
C13_Witness ==
    /\ progress.stored
    /\ progress.exams["sie"].chaptersCompleted = <<"ch1">>
    /\ \E p \in ImportPayloads :
          /\ p.ok
          /\ ~importProgressResult(progress, p)
          /\ Len(importMerged(progress, p).exams["sie"].quizScores)
                > Len(progress.exams["sie"].quizScores)
          /\ importMerged(progress, p).exams["sie"].chaptersCompleted
                = <<"ch1", "ch2">>

\* C14: every payload that is a non-null object imports with result true
C14_MergeCannotFail ==
    \A p \in ImportPayloads : p.ok => importProgressResult(progress, p)

\* C15: importing a snapshot a second time on the same day changes nothing,
\* also for a snapshot with two records of one date
C15_ImportIdempotent ==
    \A p \in ImportPayloads :
        importProgress(importProgress(progress, p), p) = importProgress(progress, p)

\* a store with a record and a chapter, on which a snapshot adds two records
\* of one date
C15_Witness ==
    /\ Len(progress.exams["sie"].quizScores) = 1
    /\ progress.exams["sie"].chaptersCompleted = <<"ch1">>
    /\ progress.streaks.dates # <<>>
    /\ \E p \in ImportPayloads :
          LET once == importProgress(progress, p).exams["sie"].quizScores
          IN  /\ Len(once) = 3
              /\ once[1] = progress.exams["sie"].quizScores[1]
              /\ once[2].date = once[3].date

\* C16: importing the export of the store succeeds and leaves every exam
\* and the streak as they were
C16_ExportImportFixedPoint ==
    /\ importProgressResult(progress, exportedSnapshot(progress))
    /\ loadProgress(importProgress(progress, exportedSnapshot(progress)))
          = loadProgress(progress)

\* C17: a successful import leaves, for every exam of the snapshot, the
\* union of the stored and the imported topics and chapters, each id once,
\* and leaves the other exams as they were
C17_ImportUnion ==
    \A p \in MarkPayloads :
        importProgressResult(progress, p) =>
            LET before == loadProgress(progress)
                after  == loadProgress(importProgress(progress, p))
            IN  \A e \in ExamIds :
                    IF p.exams[e].present
                    THEN /\ Range(after.exams[e].topicsStudied) =
                               Range(before.exams[e].topicsStudied)
                                   \cup Range(p.exams[e].topicsStudied)
                         /\ Range(after.exams[e].chaptersCompleted) =
                               Range(before.exams[e].chaptersCompleted)
                                   \cup Range(p.exams[e].chaptersCompleted)
                         /\ NoDuplicates(after.exams[e].topicsStudied)
                         /\ NoDuplicates(after.exams[e].chaptersCompleted)
                    ELSE after.exams[e] = before.exams[e]

\* one exam holds a marked topic and chapter and what a snapshot added to
\* them, the other exam holds a chapter of its own
C17_Witness ==
    /\ progress.exams["sie"].topicsStudied = <<"t2", "t1">>
    /\ progress.exams["sie"].chaptersCompleted = <<"ch1", "ch2">>
    /\ progress.exams["sie"].flashcardsMastered = 2
    /\ progress.exams["s7"].chaptersCompleted = <<"ch1">>
    /\ progress.exams["s7"].flashcardsMastered = 0
    /\ \E p \in MarkPayloads :
          /\ p.exams["s7"].present
          /\ importProgress(progress, p).exams["s7"].chaptersCompleted
                = <<"ch1", "ch2">>

DatesOf(scores) == {scores[i].date : i \in DOMAIN scores}
NoDateTwice(scores) ==
    \A i, j \in DOMAIN scores : scores[i].date = scores[j].date => i = j

\* C18: a successful import leaves the stored records in their order,
\* followed by the imported records whose date was not stored, and no two
\* records share a date when no two stored ones did
C18_ImportAppendsNewDates ==
    \A p \in ImportPayloads :
        importProgressResult(progress, p) =>
            \A e \in ExamIds :
                p.exams[e].present =>
                    LET before == loadProgress(progress).exams[e].quizScores
                        after  == importProgress(progress, p).exams[e].quizScores
                    IN  /\ after = before \o
                               SelectSeq(p.exams[e].quizScores,
                                         LAMBDA q : q.date # NoTime
                                                    /\ q.date \notin DatesOf(before))
                        /\ NoDateTwice(before) => NoDateTwice(after)

\* C19: a successful import leaves, for every exam of the snapshot, the
\* larger of the two flashcardsMastered and the later of the two
\* lastActivity, the imported one when none is stored; neither decreases
C19_ImportMaxAndLatest ==
    \A p \in ImportPayloads :
        importProgressResult(progress, p) =>
            \A e \in ExamIds :
                p.exams[e].present =>
                    LET before == loadProgress(progress).exams[e]
                        after  == importProgress(progress, p).exams[e]
                        imp    == p.exams[e]
                    IN  /\ after.flashcardsMastered =
                              IF imp.flashcardsMastered > before.flashcardsMastered
                              THEN imp.flashcardsMastered
                              ELSE before.flashcardsMastered
                        /\ after.lastActivity =
                              IF imp.lastActivity = NoTime THEN before.lastActivity
                              ELSE IF before.lastActivity = NoTime
                                   THEN imp.lastActivity
                              ELSE IF imp.lastActivity > before.lastActivity
                                   THEN imp.lastActivity
                              ELSE before.lastActivity
                        /\ after.flashcardsMastered >= before.flashcardsMastered
                        /\ before.lastActivity # NoTime =>
                              after.lastActivity >= before.lastActivity

\* the exam was touched after the time of a snapshot and holds more
\* mastered cards than another snapshot
C19_Witness ==
    /\ progress.exams["sie"].lastActivity = 2
    /\ progress.exams["sie"].flashcardsMastered = 2
    /\ \E p, q \in ImportPayloads :
          /\ importProgressResult(progress, p)
          /\ importProgressResult(progress, q)
          /\ p.exams["sie"].present /\ p.exams["sie"].lastActivity = 1
          /\ q.exams["sie"].present /\ q.exams["sie"].flashcardsMastered = 1
          /\ importProgress(progress, p).exams["sie"].lastActivity = 2
          /\ importProgress(progress, q).exams["sie"].flashcardsMastered = 2

\* the dates of a set in ascending order
Ascending(set) ==
    [i \in 1..Cardinality(set) |->
        SortReverse(set)[Cardinality(set) + 1 - i]]

\* the current streak the algorithm computes today from a set of dates alone
RecomputedCurrent(set) ==
    updateStreaks([exams   |-> getDefaultProgress.exams,
                   streaks |-> [dates |-> Ascending(set), current |-> 0,
                                longest |-> 0]],
                  today, tzEast).streaks.current

C21_ReadDoesNotMutate ==
    \A e \in ExamIds :
        /\ getExamProgressStore(progress, e) = progress
        /\ ~loadProgress(progress).exams[e].present =>
              /\ getExamProgress(progress, e) = getDefaultExamProgress
              /\ ~getExamProgressStore(progress, e).exams[e].present

\* one exam holds progress, the other was never touched and reads as the
\* default
C21_Witness ==
    /\ progress.stored
    /\ progress.exams["sie"].chaptersCompleted = <<"ch1">>
    /\ progress.exams["sie"].quizScores # <<>>
    /\ ~progress.exams["s7"].present
    /\ getExamProgress(progress, "s7").quizScores = <<>>
    /\ getExamProgress(progress, "sie").chaptersCompleted = <<"ch1">>

ZeroStreaks == [dates |-> <<>>, current |-> 0, longest |-> 0]

\* C22: after resetProgress every exam reads as the default and the streak
\* as no dates, current 0, longest 0
C22_ResetClearsAll ==
    [][ResetProgress =>
        /\ \A e \in ExamIds :
              getExamProgress(progress', e) = getDefaultExamProgress
        /\ loadProgress(progress').streaks = ZeroStreaks]_vars

\* a store with a chapter, a topic, a score and a streak, which a reset
\* empties
C22_Witness ==
    /\ progress.exams["sie"].chaptersCompleted # <<>>
    /\ progress.exams["sie"].topicsStudied # <<>>
    /\ progress.exams["sie"].quizScores # <<>>
    /\ progress.streaks.longest >= 2
    /\ loadProgress(resetProgress(progress)) = getDefaultProgress

\* C27: but for resetProgress no operation lowers longest, and longest is
\* never below the current that the last recomputation left
C27_LongestIsMaximum ==
    /\ [][progress'.streaks.longest >= progress.streaks.longest
          \/ ResetProgress]_vars
    /\ [](progress.streaks.longest >= progress.streaks.current)

\* a streak of two days was reached, then a recomputation found no streak
\* and left longest at two
C27_Witness ==
    /\ progress.streaks.longest = 2
    /\ progress.streaks.current = 0
    /\ {0, 1} \subseteq StoredDates
    /\ Cardinality(StoredDates) = 3
    /\ progress.streaks.dates = SortReverse(StoredDates)


\* ====================== CLAIMS: the pages in use ==========================

\* C28: every displayed card is answered once: never more than one delayed
\* advance is waiting, an answer is never given to a card that was already
\* answered while displayed, and mastered + reviewing stays within the
\* session total
C28_AnsweredOnce ==
    /\ pendingAdvance <= 1
    /\ (view \in {"card", "summary"} /\ ~fetching.active) =>
          sessionStats.mastered + sessionStats.reviewing <= sessionStats.total
    /\ currentIndex <= Len(studyQueue)

\* 'Review Again' on the summary: startSession on the page that just
\* finished a session
ReviewAgain == view = "summary" /\ \E deck \in Decks : StartSession(deck)

\* C23: after a failed write the answers given in the session stay in the
\* card states the session uses, also across 'Review Again': the state
\* that sorting and answering read for a card is the one the session held
C23_AnswersKept ==
    [][ReviewAgain =>
        \A c \in CardIds :
            leitnerState[c].present =>
                getCardState(leitnerState', c) = leitnerState[c]]_vars

\* C26: getCardState inserts {box: 1, nextReview: today} for an id without
\* an entry and returns the entry of an id that has one, changing nothing;
\* reading again changes nothing; while the page lives no entry leaves
\* the map
C26_EntriesStay ==
    /\ [](\A c \in CardIds :
            LET st == getCardStateMap(leitnerState, c)
            IN  /\ leitnerState[c].present => st = leitnerState
                /\ ~leitnerState[c].present =>
                      /\ st[c] = [present |-> TRUE, box |-> 1, nextReview |-> todayISO]
                      /\ \A d \in CardIds \ {c} : st[d] = leitnerState[d]
                /\ getCardStateMap(st, c) = st
                /\ getCardState(leitnerState, c) = st[c])
    /\ [][ReloadCards \/
          \A c \in CardIds : leitnerState[c].present => leitnerState'[c].present]_vars

\* C30: a step that changes the flashcard page or its blob leaves the
\* progress blob alone, a step that changes the progress blob leaves the card
\* blob and the session's card states alone, and resetProgress keeps every
\* card's box and nextReview
C30_BlobsIndependent ==
    /\ [][(sessionVars' # sessionVars \/ cardBlob' # cardBlob) =>
            progress' = progress]_vars
    /\ [][progress' # progress =>
            cardBlob' = cardBlob /\ leitnerState' = leitnerState]_vars
    /\ [][ResetProgress =>
            \A c \in CardIds :
                loadLeitnerState(cardBlob')[c] = loadLeitnerState(cardBlob)[c]]_vars

\* both blobs hold data while a session shows its second card: a promoted
\* card, and a store with a chapter, a score and a streak
C30_Witness ==
    /\ cardBlob["c1"].present
    /\ cardBlob["c1"].box = 2
    /\ cardBlob["c1"].nextReview > todayISO
    /\ view = "card"
    /\ currentIndex = 1
    /\ progress.stored
    /\ progress.exams["sie"].chaptersCompleted = <<"ch1">>
    /\ progress.exams["sie"].quizScores # <<>>
    /\ progress.streaks.dates # <<>>
    /\ resetProgressStorage(Storage(progress, cardBlob)).lf_flashcards = cardBlob
    /\ resetProgressStorage(Storage(progress, cardBlob)).lf_progress = NoBlob

\* the last record of an exam's quizScores
LastScore(blob, examId) ==
    blob.exams[examId].quizScores[Len(blob.exams[examId].quizScores)]

\* percent is score/total*100 rounded to the nearest integer, halves up
IsRounded(percent, score, total) ==
    /\ (2 * percent - 1) * total <= 200 * score
    /\ 200 * score < (2 * percent + 1) * total

\* C25: the record a quiz stores has passed = (percent >= threshold) with
\* percent = round(score/total*100); the threshold is the passing score of
\* the exam's catalogue entry on the quiz page, 70 when the page has none,
\* as on the lesson page
C25_PassFlag ==
    [][\A count \in 1..MaxQuestions, correct \in 0..MaxQuestions :
        correct <= count =>
          /\ \A m \in ExamMetas :
                QuizShowResults("sie", correct, count, m) =>
                    \E percent \in 0..100 :
                        /\ IsRounded(percent, correct, count)
                        /\ LastScore(progress', "sie") =
                              [date |-> now, score |-> correct, total |-> count,
                               passed |-> percent >= (IF m.known THEN m.passingScore
                                                      ELSE 70)]
          /\ LessonQuizSave("sie", correct, count) =>
                \E percent \in 0..100 :
                    /\ IsRounded(percent, correct, count)
                    /\ LastScore(progress', "sie") =
                          [date |-> now, score |-> correct, total |-> count,
                           passed |-> percent >= 70]]_vars

\* a quiz of 16 of 23 is stored as passed: 69.57 rounds to 70, where
\* dropping the fraction would fail it
C25_Witness ==
    /\ progress.exams["sie"].quizScores =
          <<[date |-> now, score |-> 16, total |-> 23, passed |-> TRUE]>>
    /\ scorePercent(16, 23) = 70
    /\ (100 * 16) \div 23 = 69
    /\ quizPassed(16, 23, NoExamMeta)
    /\ ~quizPassed(16, 23, [known |-> TRUE, passingScore |-> 72])
    /\ scorePercent(18, 24) = 75

\* the score records of the exam the quiz page runs on
QuizScoresOf(blob) == blob.exams["sie"].quizScores

\* C29: submitting an attempt appends one record, and no later event of the
\* submitted attempt (review, 'See Results', a timer callback) appends
\* another
C29_OneRecordPerAttempt ==
    /\ [][(~quizPage.submitted /\ quizPage'.submitted) =>
            Len(QuizScoresOf(progress')) = Len(QuizScoresOf(progress)) + 1]_vars
    /\ [][(quizPage.submitted /\ quizPage'.submitted) =>
            QuizScoresOf(progress') = QuizScoresOf(progress)]_vars

\* C24: no operation on a malformed stored value throws
C24_NeverThrows == ~thrown

====
